---------------------------- MODULE Spec2Model ----------------------------
(***************************************************************************)
(* A state-machine model of slabspec/slabspec.py: the two spectral         *)
(* convolvers (spec_convol, spec_convol_colette) and the slab synthesis    *)
(* (make_spec).                                                            *)
(*                                                                         *)
(* Number representation.  The program computes in IEEE doubles; the       *)
(* model computes in fixed point on integers:                              *)
(*   - a flux sample is a pair <<kind, value>> with kind "fin", "nan" or   *)
(*     "inf", so that numpy's non-finite values and its nan-aware sums are *)
(*     modelled and not assumed away;                                      *)
(*   - numpy arrays are functions on 0..len-1 (the source's indices);      *)
(*   - np.exp is the fixed-point operator ExpNegE4 (ten-thousandths);      *)
(*   - velocities are carried relative to the speed of light, in parts     *)
(*     per million (ppm), wavelengths in integer grid units.               *)
(***************************************************************************)
EXTENDS Integers, Sequences, FiniteSets, TLC

VARIABLES
    routine,      \* which function of slabspec.py this run calls
    pc,           \* position inside the running function
    \* ---- arguments of the convolvers
    wave_in,      \* wave argument (array of wavelengths)
    flux_in,      \* flux argument (array of flux samples)
    dv_in,        \* dv argument (FWHM, resp. resolution element), ppm of c
    fp_round,     \* how the two np.arange lengths round in floating point
    \* ---- locals of spec_convol_colette
    dv,           \* dv after fwhm_to_sigma (sigma, ppm of c)
    n,            \* half-window size in samples
    wave,         \* padded wavelength array
    flux,         \* padded flux array
    mask,         \* 1 at original samples, 0 at padding
    newflux,      \* output array being filled
    i,            \* loop index
    assigned,     \* indices the window loop has written, with its window length
    \* ---- locals of spec_convol
    fwhm_s,         \* samples per FWHM (thousandths)
    wave_constfwhm, \* resampled wavelength grid (thousandths of a unit)
    flux_constfwhm, \* flux on the resampled grid
    flux_conv,      \* convolved flux on the resampled grid
    \* ---- arguments and locals of make_spec
    args,         \* the call's arguments (and what HITRAN holds)
    hitran_data,  \* the line list (one record per transition)
    vup,          \* the vup local: << >> is None, <<v>> a value
    tau0,         \* peak optical depth per line (thousandths)
    tau,          \* nlines x nvel optical-depth profiles
    w_arr,        \* nlines x nvel wavelengths (wave, w_arr, wave_arr)
    f_arr,        \* nlines x nvel line profiles
    totalwave,    \* the output wavelength grid
    totaltau,     \* the accumulated optical depth on it
    \* ---- what the call gave back
    diag,         \* messages printed
    ret           \* returned array (or the exception raised)

vars == <<routine, pc, wave_in, flux_in, dv_in, fp_round,
          dv, n, wave, flux, mask, newflux, i, assigned,
          fwhm_s, wave_constfwhm, flux_constfwhm, flux_conv,
          args, hitran_data, vup, tau0, tau, w_arr, f_arr, totalwave, totaltau,
          diag, ret>>

vars_colette == <<dv, n, wave, flux, mask, newflux, i, assigned>>
vars_convol == <<fwhm_s, wave_constfwhm, flux_constfwhm, flux_conv>>
vars_make == <<args, hitran_data, vup, tau0, tau, w_arr, f_arr, totalwave, totaltau>>

---------------------------------------------------------------------------
(* Bounds of the model and the input sets.                                 *)

\* longest input array of spec_convol_colette, and of spec_convol
MaxN == 4
MaxM == 8

FinVals == {0, 1000}

Fin(v) == <<"fin", v>>
NaN == <<"nan", 0>>
Inf == <<"inf", 0>>

\* flux samples of spec_convol_colette: the zero-flux padding supplies the
\* second finite value
FluxVals == {Fin(1000), NaN, Inf}

isfinite(x) == x[1] = "fin"

\* the wavelength grids handed to the convolvers: Wave0 + k * DWave
Wave0 == 1000
DWave == 1

\* FWHM arguments of spec_convol_colette, ppm of c: one below the n < 10
\* clamp, one rounding down and one rounding up.
ColetteFwhm == {2000, 6200, 6800}

---------------------------------------------------------------------------
(* numpy helpers.                                                          *)

Size(a) == Cardinality(DOMAIN a)

\* np.array: the array held as the table of its values (computed once)
Array(f) == f @@ << >>

Zeros(k) == [j \in 0..(k-1) |-> 0]

Concat3(a, b, c) ==
    [j \in 0..(Size(a) + Size(b) + Size(c) - 1) |->
        IF j < Size(a) THEN a[j]
        ELSE IF j < Size(a) + Size(b) THEN b[j - Size(a)]
        ELSE c[j - Size(a) - Size(b)]]

RECURSIVE SumTo(_, _)
SumTo(f, k) == IF k < 0 THEN 0 ELSE f[k] + SumTo(f, k - 1)

\* np.sum of an integer array
Sum(f) == SumTo(f, Size(f) - 1)

MinOf(S) == CHOOSE x \in S : \A y \in S : x <= y
MaxOf(S) == CHOOSE x \in S : \A y \in S : x >= y

\* Python's round(): to the nearest integer, a tie to the even one.
\* The argument is the rational num/den, den > 0, num >= 0.
Round(num, den) ==
    LET q == num \div den
        r == num % den
    IN  IF 2 * r < den THEN q
        ELSE IF 2 * r > den THEN q + 1
        ELSE IF q % 2 = 0 THEN q ELSE q + 1

\* np.exp(-x), x >= 0; argument and result in ten-thousandths:
\* exp(-x) = 2^(-y), y = x*log2(e); 2^(-frac) by a quadratic through its
\* values at 0, 1/2 and 1.
ExpNegE4(x4) ==
    IF x4 >= 100000 THEN 0
    ELSE LET y4 == (x4 * 14427) \div 10000
             ip == y4 \div 10000
             fm == y4 % 10000
             fr == 10000 - (6716 * fm) \div 10000
                         + (1716 * ((fm * fm) \div 10000)) \div 10000
         IN  fr \div (2 ^ ip)

\* np.exp(-x) for either sign of x: exp(y) = 1/exp(-y), saturating at
\* exp(9)
ExpE4(x4) ==
    IF x4 >= 0 THEN ExpNegE4(x4)
    ELSE 100000000 \div ExpNegE4(IF x4 < -90000 THEN 90000 ELSE -x4)

\* np.interp(x, xp, fp): linear interpolation, the end values outside.
Interp(x, xp, fp) ==
    LET m == Size(xp)
    IN  IF x <= xp[0] THEN fp[0]
        ELSE IF x >= xp[m - 1] THEN fp[m - 1]
        ELSE LET j == CHOOSE j \in 0..(m - 2) : xp[j] <= x /\ x < xp[j + 1]
             IN  fp[j] + ((fp[j + 1] - fp[j]) * (x - xp[j])) \div (xp[j + 1] - xp[j])

\* np.median of a sorted array, times two (so that it stays an integer).
Median2(a) ==
    LET m == Size(a)
    IN  IF m % 2 = 1 THEN 2 * a[(m - 1) \div 2]
        ELSE a[m \div 2 - 1] + a[m \div 2]

\* a[keep]: numpy boolean-mask indexing; keep is the set of indices kept.
BoolIndex(a, keep) ==
    [k \in 0..(Cardinality(keep) - 1) |->
        a[CHOOSE j \in keep : Cardinality({m \in keep : m < j}) = k]]

\* a[lo:hi]: a Python slice, hi clamped to the array's end.
Slice(a, lo, hi) ==
    LET top == IF hi > Size(a) THEN Size(a) ELSE hi
    IN  Array([k \in 0..(top - lo - 1) |-> a[lo + k]])

CeilDiv(a, b) == -((-a) \div b)

\* np.arange(start, stop, step), step > 0.  Its length is
\* ceil((stop - start)/step) evaluated in doubles: when the exact quotient
\* is an integer the rounded one may fall just above it, which adds one
\* element (up = 1).
Arange(start, stop, step, up) ==
    LET len == CeilDiv(stop - start, step) + up
    IN  [j \in 0..(len - 1) |-> start + j * step]

---------------------------------------------------------------------------
(* Arithmetic on flux samples, as numpy does it.                           *)

\* sample * weight, weight a non-negative finite number
Times(x, w) ==
    IF x[1] = "fin" THEN Fin(x[2] * w)
    ELSE IF x[1] = "nan" THEN NaN
    ELSE IF w = 0 THEN NaN ELSE Inf

\* np.nansum: NaN counts as zero, an infinity is kept
NanSum(a) ==
    IF \E j \in DOMAIN a : a[j] = Inf THEN Inf
    ELSE Fin(Sum([j \in DOMAIN a |-> IF a[j][1] = "fin" THEN a[j][2] ELSE 0]))

\* x / d in doubles, d a non-negative finite number: 0/0 is NaN, x/0 is inf
TrueDiv(x, d) ==
    IF x[1] # "fin" THEN x
    ELSE IF d = 0 THEN (IF x[2] = 0 THEN NaN ELSE Inf)
    ELSE Fin(x[2] \div d)

---------------------------------------------------------------------------
(* slabspec.helpers (imported, line 14).                                   *)

\* fwhm_to_sigma: sigma = FWHM / 2.3548
fwhm_to_sigma(fwhm) == (fwhm * 10000) \div 23548

\* markgauss(x, mean=0, sigma, area=1) up to its constant factor
\* area/(sigma*sqrt(2 pi)), which line 150 divides out again.  x in tenths
\* of a ppm, sigma in ppm; the result in ten-thousandths.
markgauss(x, sigma) ==
    LET a  == IF x < 0 THEN -x ELSE x
        um == (a * 100) \div sigma        \* |x| / sigma, in thousandths
    IN  IF um > 6000 THEN 0 ELSE ExpNegE4((um * um) \div 200)

---------------------------------------------------------------------------
(* spec_convol_colette(wave, flux, dv), lines 94-161.                      *)

Idle == << >>

\* the locals of a function before it runs (and of one that is not called)
ColetteIdle ==
    /\ dv = 0 /\ n = 0 /\ i = 0
    /\ wave = Idle /\ flux = Idle /\ mask = Idle /\ newflux = Idle
    /\ assigned = Idle

ConvolIdle ==
    /\ fwhm_s = 0
    /\ wave_constfwhm = Idle /\ flux_constfwhm = Idle /\ flux_conv = Idle

MakeIdle ==
    /\ hitran_data = Idle /\ vup = Idle /\ tau0 = Idle /\ tau = Idle
    /\ w_arr = Idle /\ f_arr = Idle /\ totalwave = Idle /\ totaltau = Idle

ColetteInit ==
    /\ routine = "spec_convol_colette"
    /\ pc = "start"
    /\ \E N \in 2..MaxN :
          /\ wave_in = [k \in 0..(N - 1) |-> Wave0 + k * DWave]
          /\ flux_in \in [0..(N - 1) -> FluxVals]
    /\ dv_in \in ColetteFwhm
    /\ fp_round \in [low : {0, 1}, high : {0, 1}]
    /\ ColetteIdle
    /\ ConvolIdle
    /\ args = Idle /\ MakeIdle
    /\ diag = << >>
    /\ ret = Idle

\* line 116-118: the half-window size
HalfWindow(sigma, w) ==
    LET r == Round(4 * sigma * Median2(w), 2 * 1000000 * (w[1] - w[0]))
    IN  IF r < 10 THEN 10 ELSE r

\* line 122
wave_low(w, nn, up) ==
    LET dwave == w[1] - w[0]
    IN  Arange(w[0] - dwave * nn, w[0] - dwave, dwave, up)

\* line 123
wave_high(w, nn, up) ==
    LET dwave == w[1] - w[0]
        top   == MaxOf({w[k] : k \in DOMAIN w})
    IN  Arange(top + dwave, top + dwave * (nn - 1), dwave, up)

\* lines 137-139
TooSmall(nn, w) == nn > Size(w) - nn

\* lines 115-139: kernel size, padding, the copy and the range check
ColettePad ==
    /\ routine = "spec_convol_colette" /\ pc = "start"
    /\ LET sigma == fwhm_to_sigma(dv_in)
           nn    == HalfWindow(sigma, wave_in)
           lo    == wave_low(wave_in, nn, fp_round.low)
           hi    == wave_high(wave_in, nn, fp_round.high)
           w     == Concat3(lo, wave_in, hi)
           f     == Concat3([k \in DOMAIN lo |-> Fin(0)], flux_in,
                            [k \in DOMAIN hi |-> Fin(0)])
       IN  /\ dv' = sigma
           /\ n' = nn
           /\ wave' = w
           /\ flux' = f
           /\ mask' = Concat3(Zeros(Size(lo)), [k \in DOMAIN wave_in |-> 1],
                              Zeros(Size(hi)))
           /\ newflux' = f
           /\ diag' = IF TooSmall(nn, w)
                      THEN <<"Your wavelength range is too small for your kernel",
                             "Program will return an empty array">>
                      ELSE diag
           /\ i' = nn
    /\ pc' = "loop"
    /\ UNCHANGED <<routine, wave_in, flux_in, dv_in, fp_round, assigned, ret,
                   vars_convol, vars_make>>

\* lines 142-151: the value the loop writes at index k
WindowValue(w, f, sigma, nn, k) ==
    LET lwave == Slice(w, k - nn, k + nn + 1)
        lflux == Slice(f, k - nn, k + nn + 1)
        \* line 144, in tenths of a ppm of c
        lvel  == Array([d \in DOMAIN lwave |->
                        ((lwave[d] - w[k]) * 10000000) \div w[k]])
        span  == MaxOf({lvel[d] : d \in DOMAIN lvel}) - MinOf({lvel[d] : d \in DOMAIN lvel})
        \* line 145-146: np.arange(nvel) has ceil(nvel) points
        cnt   == CeilDiv(span, 2 * sigma) + 3
        \* line 147: .2*dv*(vel - median(vel)), in tenths of a ppm
        vel   == Array([j \in 0..(cnt - 1) |-> sigma * (2 * j - cnt + 1)])
        kernel == Array([j \in DOMAIN vel |-> markgauss(vel[j], sigma)])
        wk0   == Array([d \in DOMAIN lvel |-> Interp(lvel[d], vel, kernel)])
        tot   == Sum(wk0)
        \* line 150
        wkernel == Array([d \in DOMAIN wk0 |-> (wk0[d] * 10000) \div tot])
        num   == NanSum([d \in DOMAIN lflux |-> Times(lflux[d], wkernel[d])])
        den   == Sum([d \in DOMAIN lflux |->
                        IF isfinite(lflux[d]) THEN wkernel[d] ELSE 0])
    IN  TrueDiv(num, den)

\* lines 141-151: one pass of the window loop
ColetteWindow ==
    /\ routine = "spec_convol_colette" /\ pc = "loop"
    /\ i <= Size(wave) - n
    /\ newflux' = [newflux EXCEPT ![i] = WindowValue(wave, flux, dv, n, i)]
    /\ assigned' = [k \in DOMAIN assigned \cup {i} |->
                      IF k = i THEN Size(Slice(wave, i - n, i + n + 1))
                      ELSE assigned[k]]
    /\ i' = i + 1
    /\ UNCHANGED <<routine, pc, wave_in, flux_in, dv_in, fp_round,
                   dv, n, wave, flux, mask, diag, ret, vars_convol,
                   vars_make>>

\* the bug of leaving out lines 155-156
NanForced_Omitted(nf, f) == nf

\* lines 155-156: positions where the (padded) input is not finite
NanForced(nf, f) ==
    [k \in DOMAIN nf |-> IF ~isfinite(f[k]) THEN NaN ELSE nf[k]]

\* the bug of returning the padded array
StripPadding_Omitted(nf, m) == nf

\* line 159: newflux[mask==1]
StripPadding(nf, m) == BoolIndex(nf, {k \in DOMAIN m : m[k] = 1})

\* lines 154-161, once the loop has run out
ColetteFinish ==
    /\ routine = "spec_convol_colette" /\ pc = "loop"
    /\ i > Size(wave) - n
    /\ newflux' = NanForced(newflux, flux)
    /\ ret' = StripPadding(newflux', mask)
    /\ pc' = "done"
    /\ UNCHANGED <<routine, wave_in, flux_in, dv_in, fp_round,
                   dv, n, wave, flux, mask, i, assigned, diag, vars_convol,
                   vars_make>>

ColetteNext == ColettePad \/ ColetteWindow \/ ColetteFinish

SpecColette == ColetteInit /\ [][ColetteNext]_vars

---------------------------------------------------------------------------
(* spec_convol(wave, flux, dv), lines 16-91.  flux is finite here and its  *)
(* samples are plain numbers.                                              *)

\* dv arguments of spec_convol, ppm of c: the first gives fewer than two
\* samples per FWHM (the Nyquist floor applies), the others more.
ConvolDv == {1000, 3000, 4000}

ConvolInit ==
    /\ routine = "spec_convol"
    /\ pc = "start"
    /\ \E N \in 2..MaxM :
          /\ wave_in = [k \in 0..(N - 1) |-> Wave0 + k * DWave]
          /\ flux_in \in [0..(N - 1) -> FinVals]
    /\ dv_in \in ConvolDv
    /\ fp_round = [low |-> 0, high |-> 0]
    /\ ColetteIdle
    /\ ConvolIdle
    /\ args = Idle /\ MakeIdle
    /\ diag = << >>
    /\ ret = Idle

\* lines 37-38: the smallest spacing, the wrap-around pair included
dw_min(w) ==
    LET m == Size(w)
        roll == [k \in DOMAIN w |-> w[(k - 1) % m]]
        dws == {IF w[k] >= roll[k] THEN w[k] - roll[k] ELSE roll[k] - w[k] :
                    k \in DOMAIN w}
    IN  MinOf(dws)

\* line 40 with line 35: fwhm = wave / R, R = c/dv; in millionths of a unit
fwhm(w, dvel) == [k \in DOMAIN w |-> w[k] * dvel]

\* lines 45-48: the poorest sampling, not below Nyquist; in thousandths
Sampling(w, dvel) ==
    LET s == MinOf({fwhm(w, dvel)[k] \div (dw_min(w) * 1000) : k \in DOMAIN w})
    IN  IF s < 2000 THEN 2000 ELSE s

\* lines 51-53: np.cumsum(ds) + np.min(wave), in thousandths of a unit
ConstFwhmGrid(w, dvel) ==
    LET ds == Array([k \in DOMAIN w |-> fwhm(w, dvel)[k] \div Sampling(w, dvel)])
        lo == MinOf({w[k] : k \in DOMAIN w})
    IN  Array([k \in DOMAIN w |-> SumTo(ds, k) + 1000 * lo])

\* lines 35-76: the constant-sampling grid and the flux on it
ConvolResample ==
    /\ routine = "spec_convol" /\ pc = "start"
    /\ fwhm_s' = Sampling(wave_in, dv_in)
    /\ wave_constfwhm' = ConstFwhmGrid(wave_in, dv_in)
    /\ flux_constfwhm' =
          LET xp == Array([k \in DOMAIN wave_in |-> 1000 * wave_in[k]])
          IN  Array([k \in DOMAIN wave_in |->
                        Interp(wave_constfwhm'[k], xp, flux_in)])
    /\ pc' = "convolve"
    /\ UNCHANGED <<routine, wave_in, flux_in, dv_in, fp_round, vars_colette,
                   flux_conv, diag, ret, vars_make>>

\* astropy's Gaussian1DKernel(sigma_s), sigma_s = fwhm_s / 2.3548 (line 79):
\* 8 sigma rounded up to an odd number of samples, the Gaussian sampled at
\* the integer offsets.  exp(-d^2/(2 sigma_s^2)) = exp(-2.77255 d^2/fwhm_s^2).
KernelHalf(s) ==
    LET sz == CeilDiv(8 * s * 10, 23548)
    IN  (IF sz % 2 = 0 THEN sz + 1 ELSE sz) \div 2

Gaussian1DKernel(s) ==
    LET h == KernelHalf(s)
    IN  Array([d \in (-h)..h |->
                  ExpNegE4((d * d * 2772550) \div ((s * s) \div 10000))])

\* what lies beyond the ends of the array for convolve_fft(boundary='fill'):
\* the fill_value, which line 88 leaves at its default of 0
Boundary(a, k) == IF k \in DOMAIN a THEN a[k] ELSE 0

\* line 88: convolve_fft(a, g, normalize_kernel=True, boundary='fill')
convolve_fft(a, g) ==
    LET tot == Sum([d \in 0..(Size(g) - 1) |-> g[d - (Size(g) - 1) \div 2]])
        h   == (Size(g) - 1) \div 2
    IN  Array([k \in DOMAIN a |->
            Sum([e \in 0..(2 * h) |-> g[e - h] * Boundary(a, k + e - h)]) \div tot])

\* lines 78-88
ConvolConvolve ==
    /\ routine = "spec_convol" /\ pc = "convolve"
    /\ flux_conv' = convolve_fft(flux_constfwhm, Gaussian1DKernel(fwhm_s))
    /\ pc' = "resample"
    /\ UNCHANGED <<routine, wave_in, flux_in, dv_in, fp_round, vars_colette,
                   fwhm_s, wave_constfwhm, flux_constfwhm, diag, ret, vars_make>>

\* lines 89-91: back onto the caller's grid
ConvolReturn ==
    /\ routine = "spec_convol" /\ pc = "resample"
    /\ ret' = Array([k \in DOMAIN wave_in |->
                        Interp(1000 * wave_in[k], wave_constfwhm, flux_conv)])
    /\ pc' = "done"
    /\ UNCHANGED <<routine, wave_in, flux_in, dv_in, fp_round, vars_colette,
                   vars_convol, diag, vars_make>>

ConvolNext == ConvolResample \/ ConvolConvolve \/ ConvolReturn

SpecConvol == ConvolInit /\ [][ConvolNext]_vars

---------------------------------------------------------------------------
(* make_spec, lines 164-345.                                               *)
(*                                                                         *)
(* Wavelengths are integers (thousandths of a micron), energies kelvins,   *)
(* optical depths thousandths.  An optional argument is << >> for None and *)
(* <<v>> for a value.  The flux in Jy (line 304) and the Planck factor of  *)
(* lines 298-299 are positive factors that no decision of the function     *)
(* reads; f_arr keeps the factor 1 - exp(-tau) of line 298.                *)

MaxLines == 2

None == << >>
Some(v) == <<v>>
IsNone(x) == x = << >>

\* line 215
oversamp == 3

\* line 259: 5 sigma either side
nvel == 10 * oversamp + 1

\* What HITRAN may hold: transitions with centre wavelength w0, upper
\* vibrational label Vp, Einstein A a, upper degeneracy gp, lower- and
\* upper-state energies elower and eup_k, line strength sw.
Catalogue ==
    { [w0 |-> 1500, Vp |-> "1",     a |-> 5, gp |-> 3, elower |-> 200,  eup_k |-> 1200, sw |-> 5],
      [w0 |-> 1550, Vp |-> "2",     a |-> 1, gp |-> 5, elower |-> 900,  eup_k |-> 4000, sw |-> 3],
      [w0 |-> 1000, Vp |-> "1",     a |-> 4, gp |-> 1, elower |-> 100,  eup_k |-> 1500, sw |-> 1],
      [w0 |-> 1450, Vp |-> "0 0 1", a |-> 3, gp |-> 2, elower |-> 300,  eup_k |-> 1300, sw |-> 4],
      [w0 |-> 1900, Vp |-> "2",     a |-> 6, gp |-> 2, elower |-> 500,  eup_k |-> 1250, sw |-> 6],
      [w0 |-> 1400, Vp |-> "1",     a |-> 5, gp |-> 1, elower |-> 2000, eup_k |-> 1000, sw |-> 5],
      [w0 |-> 2500, Vp |-> "1",     a |-> 5, gp |-> 1, elower |-> 100,  eup_k |-> 700,  sw |-> 5] }

\* the arrays of at most k catalogue lines
RECURSIVE Tables(_)
Tables(k) ==
    IF k = 0 THEN {<< >>}
    ELSE Tables(k - 1) \cup
         {Array([j \in 0..(k - 1) |-> t[j + 1]]) : t \in [1..k -> Catalogue]}

MakeInit ==
    /\ routine = "make_spec"
    /\ pc = "start"
    /\ \E db \in Tables(MaxLines),
          aupmin \in {None, Some(2)}, swmin \in {None, Some(2)},
          eupmax \in {None, Some(3000)}, v \in {None, Some(1), Some(2)} :
          args = [hitran |-> db, wmin |-> 1000, wmax |-> 2000,
                  c_over_deltav |-> 20, temp |-> 1000, n_col |-> 10, q |-> 4,
                  aupmin |-> aupmin, swmin |-> swmin, eupmax |-> eupmax,
                  vup |-> v]
    /\ wave_in = Idle /\ flux_in = Idle /\ dv_in = 0
    /\ fp_round = [low |-> 0, high |-> 0]
    /\ ColetteIdle
    /\ ConvolIdle
    /\ MakeIdle
    /\ diag = << >>
    /\ ret = Idle

\* slabspec.helpers.extract_hitran_data: the transitions of the wavelength
\* range that pass the filters given.
extract_hitran_data(db, wmin, wmax, eupmax, aupmin, swmin) ==
    BoolIndex(db, {k \in DOMAIN db :
        /\ wmin <= db[k].w0 /\ db[k].w0 <= wmax
        /\ IsNone(eupmax) \/ db[k].eup_k < eupmax[1]
        /\ IsNone(aupmin) \/ db[k].a > aupmin[1]
        /\ IsNone(swmin) \/ db[k].sw > swmin[1]})

\* line 227
Retrieved ==
    extract_hitran_data(args.hitran, args.wmin, args.wmax,
                        args.eupmax, args.aupmin, args.swmin)

\* Python's int() of a label: the labels it parses, and their values
IsIntLabel(s) == s \in {"0", "1", "2", "3"}
int(s) == CASE s = "0" -> 0 [] s = "1" -> 1 [] s = "2" -> 2 [] s = "3" -> 3

Raised(exc, line) == [raised |-> exc, line |-> line]

\* lines 164-227 (deltav is given; q stands for line 247)
MakeExtract ==
    /\ routine = "make_spec" /\ pc = "start"
    /\ hitran_data' = Retrieved
    /\ vup' = args.vup
    /\ pc' = "vup_check"
    /\ UNCHANGED <<routine, wave_in, flux_in, dv_in, fp_round, vars_colette,
                   vars_convol, args, tau0, tau, w_arr, f_arr, totalwave,
                   totaltau, diag, ret>>

\* lines 230-235: is the first label an integer?
MakeVupCheck ==
    /\ routine = "make_spec" /\ pc = "vup_check"
    /\ IF IsNone(vup)
       THEN pc' = "vup_select" /\ UNCHANGED <<vup, diag, ret>>
       ELSE IF Size(hitran_data) = 0
       THEN \* hitran_data['Vp'][0] of an empty column; only ValueError is caught
            pc' = "raised" /\ ret' = Raised("IndexError", 232)
            /\ UNCHANGED <<vup, diag>>
       ELSE IF ~IsIntLabel(hitran_data[0].Vp)
       THEN /\ diag' = Append(diag, "Vp is not an integer, so the vup parameter cannot be used.  Ignoring this parameter.")
            /\ vup' = None
            /\ pc' = "vup_select"
            /\ UNCHANGED ret
       ELSE pc' = "vup_select" /\ UNCHANGED <<vup, diag, ret>>
    /\ UNCHANGED <<routine, wave_in, flux_in, dv_in, fp_round, vars_colette,
                   vars_convol, args, hitran_data, tau0, tau, w_arr, f_arr,
                   totalwave, totaltau>>

\* line 237: the rows kept
vupbool(table, v) == {k \in DOMAIN table : int(table[k].Vp) = 1}

\* lines 236-238
MakeVupSelect ==
    /\ routine = "make_spec" /\ pc = "vup_select"
    /\ IF IsNone(vup)
       THEN pc' = "profiles" /\ UNCHANGED <<hitran_data, ret>>
       ELSE IF \E k \in DOMAIN hitran_data : ~IsIntLabel(hitran_data[k].Vp)
       THEN pc' = "raised" /\ ret' = Raised("ValueError", 237)
            /\ UNCHANGED hitran_data
       ELSE /\ hitran_data' = BoolIndex(hitran_data, vupbool(hitran_data, vup[1]))
            /\ pc' = "profiles"
            /\ UNCHANGED ret
    /\ UNCHANGED <<routine, wave_in, flux_in, dv_in, fp_round, vars_colette,
                   vars_convol, args, vup, tau0, tau, w_arr, f_arr,
                   totalwave, totaltau, diag>>

\* lines 250-256: the peak optical depth of one transition.  afactor is
\* a*gp*n_col/(q*8 pi*wn0^3) with the wavelength for 1/wn0; the energy
\* factors are E/temp in ten-thousandths; phia is a positive constant.
PeakTau(line, temp, n_col, q) ==
    LET lam      == line.w0 \div 100
        afactor  == (line.a * line.gp * n_col * lam * lam * lam) \div (q * 25)
        efactor1 == (line.elower * 10000) \div temp
        efactor2 == (line.eup_k * 10000) \div temp
    IN  (afactor * (ExpNegE4(efactor1) - ExpNegE4(efactor2))) \div 10000

\* line 260 over dvel: the velocity grid in steps of dvel
vel(j) == j - (nvel - 1) \div 2

\* line 270: tau0 * exp(-vel^2/(2 deltav^2)), deltav = oversamp * dvel
Profile(peak) ==
    Array([j \in 0..(nvel - 1) |->
        (peak * ExpNegE4((10000 * vel(j) * vel(j)) \div (2 * oversamp * oversamp)))
            \div 10000])

\* line 271: 1.e6/wn0 * (1 + vel/c), vel/c = vel(j)/(oversamp * c/deltav)
Doppler(w0, cdv) ==
    Array([j \in 0..(nvel - 1) |->
        (w0 * (oversamp * cdv + vel(j))) \div (oversamp * cdv)])

\* line 276
nbins(wmin, wmax, cdv) == (oversamp * wmax * cdv) \div (wmax - wmin)

\* np.log10 of the wavelength bounds, in hundred-thousandths
Log10E5(w) == CASE w = 1000 -> 300000 [] w = 2000 -> 330103 [] w = 4000 -> 360206

\* line 279: np.logspace(log10(wmin), log10(wmax), num): num points evenly
\* spaced in the exponent; 10^e = wmax * exp(-(log10(wmax) - e) ln 10)
logspace(wmin, wmax, num) ==
    LET span == Log10E5(wmax) - Log10E5(wmin)
    IN  Array([k \in 0..(num - 1) |->
            LET below == (span * (num - 1 - k)) \div (num - 1)
            IN  (wmax * ExpNegE4((below * 23026) \div 100000)) \div 10000])

\* lines 241-285
MakeProfiles ==
    /\ routine = "make_spec" /\ pc = "profiles"
    /\ tau0' = Array([ha \in DOMAIN hitran_data |->
                   PeakTau(hitran_data[ha], args.temp, args.n_col, args.q)])
    /\ tau' = Array([ha \in DOMAIN hitran_data |-> Profile(tau0'[ha])])
    /\ w_arr' = Array([ha \in DOMAIN hitran_data |->
                   Doppler(hitran_data[ha].w0, args.c_over_deltav)])
    /\ f_arr' = Array([ha \in DOMAIN hitran_data |-> Zeros(nvel)])
    /\ totalwave' = logspace(args.wmin, args.wmax,
                             nbins(args.wmin, args.wmax, args.c_over_deltav))
    /\ totaltau' = Zeros(nbins(args.wmin, args.wmax, args.c_over_deltav))
    /\ i' = 0
    /\ pc' = "lines"
    /\ UNCHANGED <<routine, wave_in, flux_in, dv_in, fp_round,
                   dv, n, wave, flux, mask, newflux, assigned,
                   vars_convol, args, hitran_data, vup, diag, ret>>

\* line 285 with int(): interp1d(totalwave, index) refuses a wavelength
\* outside the grid (bounds_error); inside, int() of the interpolated index
\* is the cell the wavelength falls in.
InGrid(grid, x) == grid[0] <= x /\ x <= grid[Size(grid) - 1]

index_interp(grid, x) ==
    CHOOSE k \in DOMAIN grid :
        grid[k] <= x /\ (k = Size(grid) - 1 \/ x < grid[k + 1])

\* lines 288-291
minw(row) == MinOf({row[j] : j \in DOMAIN row})
maxw(row) == MaxOf({row[j] : j \in DOMAIN row})

\* line 293: np.arange(minindex, maxindex)
Window(grid, row) ==
    index_interp(grid, minw(row)) .. (index_interp(grid, maxw(row)) - 1)

\* the bug of -= for += in line 297
Accumulate_Subtract(total, grid, w, row, prof) ==
    Array([k \in DOMAIN total |->
        IF k \in w THEN total[k] - Interp(grid[k], row, prof) ELSE total[k]])

\* lines 296-297: totaltau[w] += np.interp(totalwave[w], wave[i,:], tau[i,:])
Accumulate(total, grid, w, row, prof) ==
    Array([k \in DOMAIN total |->
        IF k \in w THEN total[k] + Interp(grid[k], row, prof) ELSE total[k]])

\* line 298: the factor 1 - exp(-tau) of the line profile, ten-thousandths
Emission(prof) == Array([j \in DOMAIN prof |-> 10000 - ExpE4(10 * prof[j])])

\* lines 286-299: one transition
MakeLine ==
    /\ routine = "make_spec" /\ pc = "lines"
    /\ i < Size(hitran_data)
    /\ IF ~InGrid(totalwave, minw(w_arr[i]))
       THEN pc' = "raised" /\ ret' = Raised("ValueError", 290)
            /\ UNCHANGED <<totaltau, f_arr, i>>
       ELSE IF ~InGrid(totalwave, maxw(w_arr[i]))
       THEN pc' = "raised" /\ ret' = Raised("ValueError", 291)
            /\ UNCHANGED <<totaltau, f_arr, i>>
       ELSE LET w == Window(totalwave, w_arr[i])
            IN  /\ IF w # {}
                   THEN /\ totaltau' = Accumulate(totaltau, totalwave, w,
                                                  w_arr[i], tau[i])
                        /\ f_arr' = [f_arr EXCEPT ![i] = Emission(tau[i])]
                   ELSE UNCHANGED <<totaltau, f_arr>>
                /\ i' = i + 1
                /\ UNCHANGED <<pc, ret>>
    /\ UNCHANGED <<routine, wave_in, flux_in, dv_in, fp_round,
                   dv, n, wave, flux, mask, newflux, assigned,
                   vars_convol, args, hitran_data, vup, tau0, tau, w_arr,
                   totalwave, diag>>

\* line 299 up to its positive factor: np.sum(f_arr[i,:])
lineflux(f) == Array([ha \in DOMAIN f |-> Sum(f[ha])])

\* lines 301-345 (convol_fwhm is None): the dictionary returned
MakeReturn ==
    /\ routine = "make_spec" /\ pc = "lines"
    /\ i = Size(hitran_data)
    /\ ret' = [lineparams |-> Array([ha \in DOMAIN hitran_data |->
                                 [line |-> hitran_data[ha],
                                  lineflux |-> lineflux(f_arr)[ha],
                                  tau_peak |-> tau0[ha]]]),
               lines |-> [flux_arr |-> f_arr, wave_arr |-> w_arr],
               spectrum |-> [wave |-> totalwave, totaltau |-> totaltau]]
    /\ pc' = "done"
    /\ UNCHANGED <<routine, wave_in, flux_in, dv_in, fp_round, vars_colette,
                   vars_convol, vars_make, diag>>

MakeNext ==
    \/ MakeExtract \/ MakeVupCheck \/ MakeVupSelect
    \/ MakeProfiles \/ MakeLine \/ MakeReturn

SpecMake == MakeInit /\ [][MakeNext]_vars

---------------------------------------------------------------------------
(* The two convolvers, either one called.                                  *)

Init == ColetteInit \/ ConvolInit

Next == ColetteNext \/ ConvolNext

Spec == Init /\ [][Next]_vars

---------------------------------------------------------------------------
(* Properties of the convolvers, checked under Spec.                       *)

Colette == routine = "spec_convol_colette"
Convol == routine = "spec_convol"

\* index of original sample k in the padded arrays
Padded(k) == k + MinOf({j \in DOMAIN mask : mask[j] = 1})

C4_NonFinitePreserved ==
    (Colette /\ pc = "done") =>
        \A k \in DOMAIN flux_in : ~isfinite(flux_in[k]) => ~isfinite(ret[k])

C4_Witness ==
    /\ Colette /\ pc = "done"
    /\ \E k \in DOMAIN flux_in :
          /\ flux_in[k] = NaN
          /\ Padded(k) \in DOMAIN assigned
          /\ isfinite(WindowValue(wave, flux, dv, n, Padded(k)))
          /\ ret[k] = NaN

\* C5: in spec_convol_colette, whenever n exceeds the padded length minus n
\* the diagnostic is printed and the array returned is empty.
C5_TooSmallReturnsEmpty ==
    (Colette /\ pc = "done" /\ TooSmall(n, wave)) =>
        (Len(diag) > 0 /\ Size(ret) = 0)

\* C8: spec_convol_colette pads n zero-flux samples on each end, so that
\* the window loop runs at every original sample, the first and the last
\* included, each with a full window of 2n+1 samples.
C8_EveryOriginalSampleConvolved ==
    (Colette /\ pc = "done") =>
        /\ Cardinality({j \in DOMAIN mask : mask[j] = 0 /\ j < Padded(0)}) = n
        /\ Cardinality({j \in DOMAIN mask : mask[j] = 0 /\ j > Padded(0)}) = n
        /\ \A j \in DOMAIN mask :
              mask[j] = 1 => (j \in DOMAIN assigned /\ assigned[j] = 2 * n + 1)

\* C9: spec_convol returns a constant finite flux as the same constant at
\* every sample, the first and the last included (the array is extended by
\* its edge values).
C9_ConstantPreserved ==
    (Convol /\ pc = "done" /\ \A k \in DOMAIN flux_in : flux_in[k] = flux_in[0])
        => \A k \in DOMAIN flux_in : ret[k] = flux_in[k]

---------------------------------------------------------------------------
(* Properties of make_spec, checked under SpecMake.                        *)

Make == routine = "make_spec"

\* C1: when no transition passes the filters make_spec returns a result
\* with no line rows, no profile rows and a total optical depth of zero
\* everywhere; it raises nothing, whichever optional filters were given.
C1_EmptyListNoError ==
    (Make /\ pc \in {"done", "raised"} /\ Size(Retrieved) = 0) =>
        /\ pc = "done"
        /\ Size(ret.lineparams) = 0
        /\ Size(ret.lines.wave_arr) = 0
        /\ Size(ret.lines.flux_arr) = 0
        /\ \A k \in DOMAIN ret.spectrum.totaltau : ret.spectrum.totaltau[k] = 0

\* C2: with vup given and every label numeric, the line list returned holds
\* exactly the retrieved transitions whose upper vibrational state is vup.
C2_VupSelectsRequested ==
    (Make /\ pc = "done" /\ ~IsNone(args.vup)
          /\ \A k \in DOMAIN Retrieved : IsIntLabel(Retrieved[k].Vp)) =>
        [ha \in DOMAIN ret.lineparams |-> ret.lineparams[ha].line]
            = BoolIndex(Retrieved,
                        {k \in DOMAIN Retrieved : int(Retrieved[k].Vp) = args.vup[1]})

\* C6: with vup given and a non-numeric label on any retrieved row, first
\* or later, the vup handling raises nothing: the restriction is dropped,
\* the diagnostic printed and the line list left as retrieved.
C6_NonNumericSkipsFilter ==
    (Make /\ pc \notin {"start", "vup_check", "vup_select"}
          /\ ~IsNone(args.vup)
          /\ \E k \in DOMAIN Retrieved : ~IsIntLabel(Retrieved[k].Vp)) =>
        /\ ~(pc = "raised" /\ ret.line \in {232, 237})
        /\ IsNone(vup)
        /\ Len(diag) > 0
        /\ hitran_data = Retrieved

\* the grid cells written by the transitions the loop has dealt with
Covered == UNION {Window(totalwave, w_arr[ha]) : ha \in 0..(i - 1)}

\* C7: provided no peak optical depth is negative, the total optical depth
\* is >= 0 at every grid index after every pass of the loop, and is exactly
\* 0 at the indices outside every window written.
C7_TotalTauNonNegative ==
    (Make /\ \A ha \in DOMAIN tau0 : tau0[ha] >= 0) =>
        LET written == Covered
        IN  \A k \in DOMAIN totaltau :
                /\ totaltau[k] >= 0
                /\ k \notin written => totaltau[k] = 0

C7_Witness ==
    /\ Make /\ pc = "done" /\ Size(hitran_data) = 2
    /\ \A ha \in DOMAIN tau0 : tau0[ha] > 0
    /\ hitran_data[0].w0 # hitran_data[1].w0
    /\ \E k \in Window(totalwave, w_arr[0]) \cap Window(totalwave, w_arr[1]) :
          totaltau[k] > tau0[0] /\ totaltau[k] > tau0[1]
    /\ \E k \in DOMAIN totaltau : k \notin Covered /\ totaltau[k] = 0

\* C10: for every transition of the line list (its centre lies in
\* [wmin, wmax]) the lookup of the profile's smallest and largest wavelength
\* succeeds, with 0 <= minindex <= maxindex <= nbins - 1.
C10_IndexLookupInRange ==
    (Make /\ pc = "lines") =>
        \A ha \in DOMAIN hitran_data :
            /\ args.wmin <= hitran_data[ha].w0 /\ hitran_data[ha].w0 <= args.wmax
            /\ InGrid(totalwave, minw(w_arr[ha]))
            /\ InGrid(totalwave, maxw(w_arr[ha]))
            /\ 0 <= index_interp(totalwave, minw(w_arr[ha]))
            /\ index_interp(totalwave, minw(w_arr[ha]))
                  <= index_interp(totalwave, maxw(w_arr[ha]))
            /\ index_interp(totalwave, maxw(w_arr[ha])) <= Size(totaltau) - 1

===========================================================================
